---- MODULE Spec2Model ----
(***************************************************************************)
(* Life-like cellular automata on a toroidal grid (Vanille-N/cellular_      *)
(* automata): src/src/canvas.rs (Canvas, mod_idx) and src/src/lifelike.rs   *)
(* (Cell, LifeLike, Rules, Transform, the four pattern parsers).            *)
(*                                                                         *)
(* Text is a sequence of characters; a character is a one-character string *)
(* ("x", "\n", ...) or the token "U+0178" for the non-ASCII character      *)
(* LATIN CAPITAL LETTER Y WITH DIAERESIS.  A panic ends the process: it is  *)
(* recorded in ret and no operation is enabled afterwards.                  *)
(***************************************************************************)
EXTENDS Integers, Sequences, FiniteSets, TLC

VARIABLES
    overflow_checks, \* build profile: TRUE = debug (overflow panics), FALSE = release (wraps)
    hgt, wth,        \* LifeLike.hgt, LifeLike.wth (= Canvas.hgt, Canvas.wth)
    rules,           \* LifeLike.rules: [b, s], each a table 0..8 -> BOOLEAN
    field,           \* LifeLike.field.tab: [0..hgt-1 -> [0..wth-1 -> [curr, succ]]]
    cnt, born, dead, \* LifeLike.cnt, LifeLike.born, LifeLike.dead
    call,            \* the last call: [fn, args]
    ret,             \* its outcome: [panic, val, msg]
    fs_data,         \* content of the pattern file read by add_from_file
    ghost,           \* what the last pattern load did: [trace, consumed, i, j]
    gen,             \* number of next() calls since the pattern was seeded
    seed             \* the alive cells when the pattern was loaded (before a load, after seeding)

vars == <<overflow_checks, hgt, wth, rules, field, cnt, born, dead,
          call, ret, fs_data, ghost, gen, seed>>

-----------------------------------------------------------------------------
(* Bounds of the model *)

MaxRuleLen == 4   \* longest rule string given to Rules::new
MaxLen == 3       \* longest enumerated pattern text
MaxGen == 5       \* next() calls followed after seeding the glider
MaxIdx == 12      \* |i| of the signed indices given to mod_idx
MaxDim == 7       \* largest dimension n given to mod_idx
MaxPermCells == 4 \* largest grid (in cells) whose visiting orders are all enumerated

-----------------------------------------------------------------------------
(* Characters *)

Digits == <<"0", "1", "2", "3", "4", "5", "6", "7", "8", "9">>

\* char::to_digit(10): Some(d) for an ASCII decimal digit, None (-1) otherwise
to_digit(c) ==
    IF \E d \in 1..10 : Digits[d] = c
    THEN (CHOOSE d \in 1..10 : Digits[d] = c) - 1
    ELSE -1

\* `c as u32`: the code point of a character
Ord(c) ==
    CASE c = "\n" -> 10
      [] c = "\r" -> 13
      [] c = " " -> 32
      [] c = "!" -> 33
      [] c = "#" -> 35
      [] c = "$" -> 36
      [] c = "*" -> 42
      [] c = "-" -> 45
      [] c = "." -> 46
      [] to_digit(c) >= 0 -> 48 + to_digit(c)
      [] c = "?" -> 63
      [] c = "O" -> 79
      [] c = "a" -> 97
      [] c = "b" -> 98
      [] c = "o" -> 111
      [] c = "x" -> 120
      [] c = "U+0178" -> 376

\* `c as u8`: the code point truncated to its low 8 bits
AsU8(c) == Ord(c) % 256

HexDigit(n) == IF n < 10 THEN 48 + n ELSE 97 + (n - 10)

\* core::ascii::escape_default(byte): the bytes that are displayed for it
escape_default(b) ==
    CASE b = 9 -> <<92, 116>>
      [] b = 13 -> <<92, 114>>
      [] b = 10 -> <<92, 110>>
      [] b = 39 -> <<92, 39>>
      [] b = 34 -> <<92, 34>>
      [] b = 92 -> <<92, 92>>
      [] b \in 32..126 /\ b \notin {39, 34, 92} -> <<b>>
      [] OTHER -> <<92, 120, HexDigit(b \div 16), HexDigit(b % 16)>>

\* str::split(sep): the pieces between the separators (always at least one)
RECURSIVE SplitFrom(_, _, _, _)
SplitFrom(s, sep, k, piece) ==
    IF k > Len(s) THEN <<piece>>
    ELSE IF s[k] = sep THEN <<piece>> \o SplitFrom(s, sep, k + 1, <<>>)
    ELSE SplitFrom(s, sep, k + 1, Append(piece, s[k]))

Split(s, sep) == SplitFrom(s, sep, 1, <<>>)

-----------------------------------------------------------------------------
(* Outcomes *)

\* done: the call has ended; panic: it ended in a panic with message msg; val: its value
NoMsg == [kind |-> "none", shown |-> <<>>, code |-> -1]
Running == [done |-> FALSE, panic |-> FALSE, val |-> <<>>, msg |-> NoMsg]
Ok(v) == [done |-> TRUE, panic |-> FALSE, val |-> v, msg |-> NoMsg]
Panic(kind) ==
    [done |-> TRUE, panic |-> TRUE, val |-> <<>>,
     msg |-> [kind |-> kind, shown |-> <<>>, code |-> -1]]

\* panic!("unknown character {}", ascii::escape_default(c as u8))          (txt, lif)
UnknownChar(c) ==
    [done |-> TRUE, panic |-> TRUE, val |-> <<>>,
     msg |-> [kind |-> "unknown character", shown |-> escape_default(AsU8(c)), code |-> -1]]

\* panic!("unknown character `{}` ({})", ascii::escape_default(c as u8), c as u32)  (cells, rle)
UnknownCharCode(c) ==
    [done |-> TRUE, panic |-> TRUE, val |-> <<>>,
     msg |-> [kind |-> "unknown character", shown |-> escape_default(AsU8(c)), code |-> Ord(c)]]

-----------------------------------------------------------------------------
(* Rules *)

AllFalse == [d \in 0..8 |-> FALSE]

\* one `for c in side.chars() { table[c.to_digit(10).unwrap() as usize] = true }` loop
RECURSIVE SetDigits(_, _, _)
SetDigits(tab, side, k) ==
    IF k > Len(side) THEN Ok(tab)
    ELSE IF to_digit(side[k]) < 0 THEN Panic("unwrap on None")
    ELSE IF to_digit(side[k]) > 8 THEN Panic("index out of bounds")
    ELSE SetDigits([tab EXCEPT ![to_digit(side[k])] = TRUE], side, k + 1)

\* Rules::new with the two sides of the separator exchanged
Rules_new_swapped(s) ==
    LET v == Split(s, "-") IN
    IF Len(v) < 2 THEN Panic("index out of bounds")
    ELSE LET rb == SetDigits(AllFalse, v[2], 1) IN
         IF rb.panic THEN rb
         ELSE LET rs == SetDigits(AllFalse, v[1], 1) IN
              IF rs.panic THEN rs
              ELSE Ok([b |-> rb.val, s |-> rs.val])

\* Rules::new(s)
Rules_new(s) ==
    LET v == Split(s, "-") IN
    IF Len(v) < 2 THEN Panic("index out of bounds")
    ELSE LET rb == SetDigits(AllFalse, v[1], 1) IN
         IF rb.panic THEN rb
         ELSE LET rs == SetDigits(AllFalse, v[2], 1) IN
              IF rs.panic THEN rs
              ELSE Ok([b |-> rb.val, s |-> rs.val])

LIFE == <<"3", "-", "2", "3">>
SEEDS == <<"2", "-">>
REPLICATOR == <<"1", "3", "5", "7", "-", "1", "3", "5", "7">>
NODEATH == <<"3", "-", "0", "1", "2", "3", "4", "5", "6", "7", "8">>

-----------------------------------------------------------------------------
(* Canvas: wraparound index *)

\* 2^64 mod n, for the residue of a wrapped usize
TwoPow64Mod(n) ==
    LET a == 65536 % n
        a2 == (a * a) % n
    IN (a2 * a2) % n

\* the usize addition `(i as usize) + p * n` of mod_idx overflows 64 bits
mod_idx_overflows(i, n) == i < 0 /\ i + (n \div (-i)) * n >= 0

\* fn mod_idx(i: isize, n: usize) -> usize, usize is 64 bits wide.
\* For i < 0, `i as usize` is 2^64 + i; the sum wraps modulo 2^64 in a release build.
mod_idx(i, n) ==
    IF i >= 0 THEN i % n
    ELSE LET p == n \div (-i)
             sum == i + p * n     \* (i as usize) + p * n, less 2^64
         IN IF sum >= 0 THEN sum % n
            ELSE (TwoPow64Mod(n) + (sum % n)) % n

\* Canvas::mod_idx(&mut self, i, j): the cell the signed indices address, row first;
\* in a build with overflow checks the addition of mod_idx panics when it wraps
Canvas_mod_idx(h, w, i, j, checks) ==
    IF checks /\ (mod_idx_overflows(i, h) \/ mod_idx_overflows(j, w))
    THEN Panic("attempt to add with overflow")
    ELSE Ok(<<mod_idx(i, h), mod_idx(j, w)>>)

-----------------------------------------------------------------------------
(* Transform *)

Rotations == {"None", "Left", "Right", "Double"}
Transforms == [rot : Rotations, mirror : BOOLEAN]

T_NONE == [rot |-> "None", mirror |-> FALSE]
T_NONE_SYM == [rot |-> "None", mirror |-> TRUE]

\* Transform::next(&self, i, j): the cursor after one cell on the same line
Transform_next(t, i, j) ==
    IF t.mirror
    THEN CASE t.rot = "None" -> <<i, j - 1>>
           [] t.rot = "Left" -> <<i - 1, j>>
           [] t.rot = "Right" -> <<i + 1, j>>
           [] t.rot = "Double" -> <<i, j + 1>>
    ELSE CASE t.rot = "None" -> <<i, j + 1>>
           [] t.rot = "Left" -> <<i - 1, j>>
           [] t.rot = "Right" -> <<i + 1, j>>
           [] t.rot = "Double" -> <<i, j - 1>>

\* Transform::newline(&self, i, j, i0, j0): the cursor at the start of the next line
Transform_newline(t, i, j, oi, oj) ==
    IF t.mirror
    THEN CASE t.rot = "None" -> <<i + 1, oj>>
           [] t.rot = "Left" -> <<oi, j - 1>>
           [] t.rot = "Right" -> <<oi, j + 1>>
           [] t.rot = "Double" -> <<i - 1, oj>>
    ELSE CASE t.rot = "None" -> <<i + 1, oj>>
           [] t.rot = "Left" -> <<oi, j + 1>>
           [] t.rot = "Right" -> <<oi, j - 1>>
           [] t.rot = "Double" -> <<i - 1, oj>>

-----------------------------------------------------------------------------
(* Cell *)

\* Cell::new()
Cell_new == [curr |-> FALSE, succ |-> FALSE]

\* a birth that sets the current state as well
Cell_birth_now(c) == [curr |-> TRUE, succ |-> TRUE]

\* Cell::birth(&mut self)
Cell_birth(c) == [c EXCEPT !.succ = TRUE]

\* Cell::kill(&mut self)
Cell_kill(c) == [c EXCEPT !.succ = FALSE]

\* <Cell as Colorize>::color(&self): what the renderer shows for the cell
Cell_color(c) == IF c.curr THEN <<25, 25, 25>> ELSE <<0, 0, 0>>

\* is_alive reading the pending state
is_alive_pending(c) == c.succ

\* Cell::is_alive(self)
is_alive(c) == c.curr

\* Cell::update counting a birth for every cell whose pending state is alive
Cell_update_overcount(c, b, d) ==
    IF c.succ
    THEN [cell |-> [c EXCEPT !.curr = TRUE], born |-> b + 1, dead |-> d]
    ELSE IF c.curr
         THEN [cell |-> [c EXCEPT !.curr = FALSE], born |-> b, dead |-> d + 1]
         ELSE [cell |-> c, born |-> b, dead |-> d]

\* Cell::update(&mut self, born, dead): the cell and the two counters afterwards
Cell_update(c, b, d) ==
    IF c.succ
    THEN IF ~c.curr
         THEN [cell |-> [c EXCEPT !.curr = TRUE], born |-> b + 1, dead |-> d]
         ELSE [cell |-> c, born |-> b, dead |-> d]
    ELSE IF c.curr
         THEN [cell |-> [c EXCEPT !.curr = FALSE], born |-> b, dead |-> d + 1]
         ELSE [cell |-> c, born |-> b, dead |-> d]

-----------------------------------------------------------------------------
(* LifeLike: the engine *)

\* Canvas::new(hgt, wth, Cell::new())
Canvas_new(h, w) == [i \in 0..(h - 1) |-> [j \in 0..(w - 1) |-> Cell_new]]

\* the commit loop leaving out the last cell of the grid
RECURSIVE UpdateLoop_skip_last(_, _, _, _, _, _)
UpdateLoop_skip_last(f, h, w, k, b, d) ==
    IF k >= h * w - 1 THEN [field |-> f, born |-> b, dead |-> d]
    ELSE LET i == k \div w
             j == k % w
         IN CHOOSE res \in {UpdateLoop_skip_last([f EXCEPT ![i][j] = u.cell], h, w, k + 1,
                                                  u.born, u.dead) :
                               u \in {Cell_update(f[i][j], b, d)}} : TRUE

\* the `for i in 0..hgt { for j in 0..wth { field[[i, j]].update(born, dead) } }` loop,
\* from cell number k (row-major) on.  (In the loops, a value bound by `x \in {e}` is
\* computed once, before the next iteration.)
RECURSIVE UpdateLoop(_, _, _, _, _, _)
UpdateLoop(f, h, w, k, b, d) ==
    IF k >= h * w THEN [field |-> f, born |-> b, dead |-> d]
    ELSE LET i == k \div w
             j == k % w
         IN CHOOSE res \in {UpdateLoop([f EXCEPT ![i][j] = u.cell], h, w, k + 1, u.born, u.dead) :
                               u \in {Cell_update(f[i][j], b, d)}} : TRUE

\* update() with the two counters exchanged in `cnt += born; cnt -= dead`
LifeLike_update_swapped(f, h, w, c, checks) ==
    LET u == UpdateLoop(f, h, w, 0, 0, 0)
        added == c + u.dead
    IN IF added < u.born /\ checks
       THEN [field |-> u.field, born |-> u.born, dead |-> u.dead, cnt |-> added,
             ret |-> Panic("attempt to subtract with overflow")]
       ELSE [field |-> u.field, born |-> u.born, dead |-> u.dead, cnt |-> added - u.born,
             ret |-> Ok(<<>>)]

\* LifeLike::update(&mut self): born and dead are reset, every cell is committed,
\* then cnt += born; cnt -= dead in usize arithmetic.  A negative cnt stands for
\* the wrapped value 2^64 + cnt of a release build.
LifeLike_update(f, h, w, c, checks) ==
    LET u == UpdateLoop(f, h, w, 0, 0, 0)
        added == c + u.born
    IN IF added < u.dead /\ checks
       THEN [field |-> u.field, born |-> u.born, dead |-> u.dead, cnt |-> added,
             ret |-> Panic("attempt to subtract with overflow")]
       ELSE [field |-> u.field, born |-> u.born, dead |-> u.dead, cnt |-> added - u.dead,
             ret |-> Ok(<<>>)]

\* index_move stopping at the last row and column instead of wrapping to 0
index_move_clamped(h, w, i, j, mvi, mvj) ==
    LET ni == CASE mvi = -1 -> IF i = 0 THEN h - 1 ELSE i - 1
                [] mvi = 1 -> IF i = h - 1 THEN i ELSE i + 1
                [] mvi = 0 -> i
        nj == CASE mvj = -1 -> IF j = 0 THEN w - 1 ELSE j - 1
                [] mvj = 1 -> IF j = w - 1 THEN j ELSE j + 1
                [] mvj = 0 -> j
    IN <<ni, nj>>

\* LifeLike::index_move(&self, i, j, mvi, mvj), for mvi, mvj in {-1, 0, 1}
index_move(h, w, i, j, mvi, mvj) ==
    LET ni == CASE mvi = -1 -> IF i = 0 THEN h - 1 ELSE i - 1
                [] mvi = 1 -> IF i = h - 1 THEN 0 ELSE i + 1
                [] mvi = 0 -> i
        nj == CASE mvj = -1 -> IF j = 0 THEN w - 1 ELSE j - 1
                [] mvj = 1 -> IF j = w - 1 THEN 0 ELSE j + 1
                [] mvj = 0 -> j
    IN <<ni, nj>>

\* the eight offsets in the order count_neigh reads them
NeighOffsets == << <<-1, 0>>, <<-1, -1>>, <<-1, 1>>, <<1, 0>>, <<1, -1>>, <<1, 1>>,
                   <<0, -1>>, <<0, 1>> >>

\* the cell count_neigh reads for offset number k
NeighCell(f, h, w, i, j, k) ==
    LET at == index_move(h, w, i, j, NeighOffsets[k][1], NeighOffsets[k][2])
    IN f[at[1]][at[2]]

\* LifeLike::count_neigh(&self, i, j)
RECURSIVE CountFrom(_, _, _, _, _, _)
CountFrom(f, h, w, i, j, k) ==
    IF k > Len(NeighOffsets) THEN 0
    ELSE (IF is_alive(NeighCell(f, h, w, i, j, k)) THEN 1 ELSE 0)
         + CountFrom(f, h, w, i, j, k + 1)

count_neigh(f, h, w, i, j) == CountFrom(f, h, w, i, j, 1)

\* the loop body of next() writing the current state of the cell at once
RuleCell_in_place(f, h, w, r, i, j) ==
    LET neigh == count_neigh(f, h, w, i, j)
        cell == f[i][j]
    IN IF is_alive(cell)
       THEN IF ~r.s[neigh] THEN [f EXCEPT ![i][j] = [curr |-> FALSE, succ |-> FALSE]] ELSE f
       ELSE IF r.b[neigh] THEN [f EXCEPT ![i][j] = [curr |-> TRUE, succ |-> TRUE]] ELSE f

\* the body of the loop of next() for cell (i, j): the rule writes its pending state
RuleCell(f, h, w, r, i, j) ==
    LET neigh == count_neigh(f, h, w, i, j)
        cell == f[i][j]
    IN IF is_alive(cell)
       THEN IF ~r.s[neigh] THEN [f EXCEPT ![i][j] = Cell_kill(cell)] ELSE f
       ELSE IF r.b[neigh] THEN [f EXCEPT ![i][j] = Cell_birth(cell)] ELSE f

\* the rule pass of next(), row-major, from cell number k on
RECURSIVE RuleLoop(_, _, _, _, _)
RuleLoop(f, h, w, r, k) ==
    IF k >= h * w THEN f
    ELSE CHOOSE res \in {RuleLoop(g, h, w, r, k + 1) :
                             g \in {RuleCell(f, h, w, r, k \div w, k % w)}} : TRUE

\* LifeLike::next(&mut self): the rule pass, then update()
LifeLike_next(f, h, w, r, c, checks) ==
    LifeLike_update(RuleLoop(f, h, w, r, 0), h, w, c, checks)

\* the births of init_rand and init_cluster: `field[[i, j]].birth()` for the cells the
\* random draws select, a
BirthAll(f, h, w, a) ==
    [i \in 0..(h - 1) |-> [j \in 0..(w - 1) |->
        IF <<i, j>> \in a THEN Cell_birth(f[i][j]) ELSE f[i][j]]]

\* LifeLike::init_rand(&mut self, p), the draws selecting the cells of a: the births,
\* then update()
LifeLike_init_rand(f, h, w, c, checks, a) == LifeLike_update(BirthAll(f, h, w, a), h, w, c, checks)

\* the closures lo and hi of init_cluster, for f = fr[1] / fr[2] in [0, 1]:
\* floor(n * (1 - f) / 2) and floor(n * (1 + f) / 2)
ClusterLo(n, fr) == (n * (fr[2] - fr[1])) \div (2 * fr[2])
ClusterHi(n, fr) == (n * (fr[2] + fr[1])) \div (2 * fr[2])

\* the cells the loops of init_cluster go through
ClusterCells(h, w, fr) ==
    (ClusterLo(h, fr)..(ClusterHi(h, fr) - 1)) \X (ClusterLo(w, fr)..(ClusterHi(w, fr) - 1))

-----------------------------------------------------------------------------
(* Pattern loading: LifeLike::add_from_file *)

\* File extensions, as `file.split('.').rev().next()` yields them
TXT == <<"t", "x", "t">>
LIF == <<"l", "i", "f">>
CELLS == <<"c", "e", "l", "l", "s">>
RLE == <<"r", "l", "e">>

\* the extension taken after the first '.' instead of the last
Extension_first(file) == LET v == Split(file, ".") IN IF Len(v) >= 2 THEN v[2] ELSE v[1]

\* the extension of a file name: the piece after the last '.'
Extension(file) == LET v == Split(file, ".") IN v[Len(v)]

\* The scanner's state: the grid f, the cursor (i, j), the rle run count cnt, the next
\* character to read pos, whether the loop has ended (break or panic) halt, its outcome
\* ret, and the placements made so far, trace.
ScanInit(f, oi, oj) ==
    [f |-> f, i |-> oi, j |-> oj, cnt |-> 0, pos |-> 1, halt |-> FALSE,
     ret |-> Ok(<<>>), trace |-> <<>>]

\* `self.field.mod_idx(i, j).birth()` / `.kill()`: Canvas::mod_idx resolves the row,
\* then the column; in a build with overflow checks the wrapping addition panics.
Place(st, h, w, alive, checks) ==
    IF checks /\ (mod_idx_overflows(st.i, h) \/ mod_idx_overflows(st.j, w))
    THEN [st EXCEPT !.halt = TRUE, !.ret = Panic("attempt to add with overflow")]
    ELSE LET r == mod_idx(st.i, h)
             c == mod_idx(st.j, w)
         IN [st EXCEPT
               !.f[r][c] = IF alive THEN Cell_birth(@) ELSE Cell_kill(@),
               !.trace = Append(@, [op |-> IF alive THEN "birth" ELSE "kill",
                                    i |-> st.i, j |-> st.j, row |-> r, col |-> c])]

\* t.next(&mut i, &mut j)
Advance(st, t) ==
    LET n == Transform_next(t, st.i, st.j) IN [st EXCEPT !.i = n[1], !.j = n[2]]

\* t.newline(&mut i, &mut j, i0, j0)
Newline(st, t, oi, oj) ==
    LET n == Transform_newline(t, st.i, st.j, oi, oj)
    IN [st EXCEPT !.i = n[1], !.j = n[2],
                  !.trace = Append(@, [op |-> "newline", i |-> n[1], j |-> n[2],
                                       row |-> -1, col |-> -1])]

\* birth or kill at the cursor, then advance (nothing more after a panic)
PlaceAdvance(st, h, w, t, alive, checks) ==
    LET p == Place(st, h, w, alive, checks) IN IF p.halt THEN p ELSE Advance(p, t)

\* the comment loop stopping in front of the '\n' instead of consuming it
RECURSIVE SkipLine_keep_newline(_, _)
SkipLine_keep_newline(data, k) ==
    IF k > Len(data) THEN k
    ELSE IF data[k] = "\n" THEN k
    ELSE SkipLine_keep_newline(data, k + 1)

\* the inner comment loop: the position after the next '\n', or after the end of input
RECURSIVE SkipLine(_, _)
SkipLine(data, k) ==
    IF k > Len(data) THEN k
    ELSE IF data[k] = "\n" THEN k + 1
    ELSE SkipLine(data, k + 1)

\* the txt loop with the arm of ' ' killing the cell under the cursor before it advances
StepTxt_space_kills(st, c, h, w, oi, oj, t, checks) ==
    CASE c = "\n" -> Newline(st, t, oi, oj)
      [] c = "x" -> PlaceAdvance(st, h, w, t, TRUE, checks)
      [] c = "." \/ c = " " -> PlaceAdvance(st, h, w, t, FALSE, checks)
      [] c = "\r" -> st
      [] OTHER -> [st EXCEPT !.halt = TRUE, !.ret = UnknownChar(c)]

\* one iteration of the txt loop on character c
StepTxt(st, c, h, w, oi, oj, t, checks) ==
    CASE c = "\n" -> Newline(st, t, oi, oj)
      [] c = "x" -> PlaceAdvance(st, h, w, t, TRUE, checks)
      [] c = "." -> PlaceAdvance(st, h, w, t, FALSE, checks)
      [] c = " " -> Advance(st, t)
      [] c = "\r" -> st
      [] OTHER -> [st EXCEPT !.halt = TRUE, !.ret = UnknownChar(c)]

\* one iteration of the lif loop (alive "*", comment "#") or of the cells loop
\* (alive "O", comment "!"); `coded` tells whether the panic shows the numeric code
StepLif(st, c, data, h, w, oi, oj, t, checks, alive, comment, coded) ==
    CASE c = comment -> [st EXCEPT !.pos = SkipLine(data, st.pos)]
      [] c = "\n" -> Newline(st, t, oi, oj)
      [] c = alive -> PlaceAdvance(st, h, w, t, TRUE, checks)
      [] c = "." -> PlaceAdvance(st, h, w, t, FALSE, checks)
      [] c = "\r" -> st
      [] OTHER -> [st EXCEPT !.halt = TRUE,
                             !.ret = IF coded THEN UnknownCharCode(c) ELSE UnknownChar(c)]

\* `for _ in 0..cnt { birth/kill; t.next }` and `for _ in 0..cnt { t.newline }`: n
\* iterations of the loop body, stopped by a panic.  (The iterations are evaluated as
\* the first half of them followed by the others, which keeps the evaluation shallow
\* for a long run.)
RECURSIVE Repeat(_, _, _, _, _, _, _, _, _)
Repeat(st, n, tag, h, w, oi, oj, t, checks) ==
    IF n = 0 \/ st.halt THEN st
    ELSE IF n = 1
         THEN CASE tag = "$" -> Newline(st, t, oi, oj)
                [] tag = "o" -> PlaceAdvance(st, h, w, t, TRUE, checks)
                [] tag = "b" -> PlaceAdvance(st, h, w, t, FALSE, checks)
         ELSE CHOOSE res \in {Repeat(half, n - (n \div 2), tag, h, w, oi, oj, t, checks) :
                                  half \in {Repeat(st, n \div 2, tag, h, w, oi, oj, t, checks)}} : TRUE

\* a tag of the rle loop that leaves the run count in place for the next tag
RunTag_carry(st, tag, h, w, oi, oj, t, checks) ==
    Repeat(st, IF st.cnt = 0 THEN 1 ELSE st.cnt, tag, h, w, oi, oj, t, checks)

\* a tag of the rle loop: `if cnt == 0 { cnt = 1 }`, the run, `cnt = 0`
RunTag(st, tag, h, w, oi, oj, t, checks) ==
    LET n == IF st.cnt = 0 THEN 1 ELSE st.cnt
        r == Repeat(st, n, tag, h, w, oi, oj, t, checks)
    IN IF r.halt THEN r ELSE [r EXCEPT !.cnt = 0]

\* the rle loop with the arm of '!' doing nothing instead of `break`
StepRle_no_break(st, c, data, h, w, oi, oj, t, checks) ==
    CASE c = "#" \/ c = "x" -> [st EXCEPT !.pos = SkipLine(data, st.pos)]
      [] c = "$" \/ c = "o" \/ c = "b" -> RunTag(st, c, h, w, oi, oj, t, checks)
      [] to_digit(c) >= 0 -> [st EXCEPT !.cnt = st.cnt * 10 + to_digit(c)]
      [] c = "!" \/ c = "\r" \/ c = "\n" -> st
      [] OTHER -> [st EXCEPT !.halt = TRUE, !.ret = UnknownCharCode(c)]

\* one iteration of the rle loop on character c (cnt is a u32; the texts of the
\* model stay far below 2^32)
StepRle(st, c, data, h, w, oi, oj, t, checks) ==
    CASE c = "#" \/ c = "x" -> [st EXCEPT !.pos = SkipLine(data, st.pos)]
      [] c = "$" \/ c = "o" \/ c = "b" -> RunTag(st, c, h, w, oi, oj, t, checks)
      [] to_digit(c) >= 0 -> [st EXCEPT !.cnt = st.cnt * 10 + to_digit(c)]
      [] c = "!" -> [st EXCEPT !.halt = TRUE]
      [] c = "\r" \/ c = "\n" -> st
      [] OTHER -> [st EXCEPT !.halt = TRUE, !.ret = UnknownCharCode(c)]

\* `it.next()` and the match on it, for the parser of extension ext
Step(ext, st, data, h, w, oi, oj, t, checks) ==
    LET c == data[st.pos]
        rd == [st EXCEPT !.pos = st.pos + 1]
    IN CASE ext = TXT -> StepTxt(rd, c, h, w, oi, oj, t, checks)
         [] ext = LIF -> StepLif(rd, c, data, h, w, oi, oj, t, checks, "*", "#", FALSE)
         [] ext = CELLS -> StepLif(rd, c, data, h, w, oi, oj, t, checks, "O", "!", TRUE)
         [] ext = RLE -> StepRle(rd, c, data, h, w, oi, oj, t, checks)

\* the parser loop: until the input ends, a break or a panic
RECURSIVE Scan(_, _, _, _, _, _, _, _, _)
Scan(ext, st, data, h, w, oi, oj, t, checks) ==
    IF st.halt \/ st.pos > Len(data) THEN st
    ELSE CHOOSE res \in {Scan(ext, nx, data, h, w, oi, oj, t, checks) :
                             nx \in {Step(ext, st, data, h, w, oi, oj, t, checks)}} : TRUE

\* LifeLike::add_from_file(&mut self, file, i0, j0, t) on a file holding data:
\* the parser chosen by the extension, then update() unless a panic ended the call
add_from_file(f, h, w, c, b, d, checks, file, data, oi, oj, t) ==
    LET ext == Extension(file) IN
    IF ext \notin {TXT, LIF, CELLS, RLE}
    THEN [field |-> f, cnt |-> c, born |-> b, dead |-> d,
          ret |-> Panic("is not recognized as a valid extension"),
          ghost |-> [trace |-> <<>>, consumed |-> 0, i |-> oi, j |-> oj]]
    ELSE LET st == Scan(ext, ScanInit(f, oi, oj), data, h, w, oi, oj, t, checks)
             g == [trace |-> st.trace, consumed |-> st.pos - 1, i |-> st.i, j |-> st.j]
         IN IF st.ret.panic
            THEN [field |-> st.f, cnt |-> c, born |-> b, dead |-> d, ret |-> st.ret, ghost |-> g]
            ELSE LET u == LifeLike_update(st.f, h, w, c, checks)
                 IN [field |-> u.field, cnt |-> u.cnt, born |-> u.born, dead |-> u.dead,
                     ret |-> u.ret, ghost |-> g]

-----------------------------------------------------------------------------
(* Inputs *)

\* all texts of length at most n over the characters of alphabet
RECURSIVE TextsUpTo(_, _)
TextsUpTo(alphabet, n) ==
    IF n = 0 THEN {<<>>}
    ELSE LET shorter == TextsUpTo(alphabet, n - 1)
         IN shorter \cup {Append(s, c) : s \in {x \in shorter : Len(x) = n - 1}, c \in alphabet}

NoGhost == [trace |-> <<>>, consumed |-> 0, i |-> 0, j |-> 0]
NoRules == [b |-> AllFalse, s |-> AllFalse]

\* the cells of an h x w grid, and those alive in f
Cells(h, w) == (0..(h - 1)) \X (0..(w - 1))
Alive(f, h, w) == {c \in Cells(h, w) : f[c[1]][c[2]].curr}

\* a settled grid whose alive cells are those of a
GridOf(h, w, a) ==
    [i \in 0..(h - 1) |-> [j \in 0..(w - 1) |-> [curr |-> <<i, j>> \in a, succ |-> <<i, j>> \in a]]]

-----------------------------------------------------------------------------
(* Specification of Rules::new as a function of the rule string *)

RuleAlphabet == {"0", "2", "3", "8", "9", "-", "a"}
RuleInputs ==
    TextsUpTo(RuleAlphabet, MaxRuleLen)
        \cup {LIFE, SEEDS, REPLICATOR, NODEATH,
              <<"3", "2", "3">>, <<"3", "-", "2", "3", "-", "4">>, <<"3", "-", "2", "-", "9">>}

InitRules ==
    /\ overflow_checks \in BOOLEAN
    /\ hgt = 1 /\ wth = 1
    /\ rules = NoRules
    /\ field = Canvas_new(1, 1)
    /\ cnt = 0 /\ born = 0 /\ dead = 0
    /\ call \in {[fn |-> "Rules::new", args |-> <<s>>] : s \in RuleInputs}
    /\ ret = Running
    /\ fs_data = <<>>
    /\ ghost = NoGhost
    /\ gen = 0
    /\ seed = {}

ParseRules ==
    /\ call.fn = "Rules::new" /\ ~ret.done
    /\ ret' = Rules_new(call.args[1])
    /\ rules' = IF ret'.panic THEN rules ELSE ret'.val
    /\ UNCHANGED <<overflow_checks, hgt, wth, field, cnt, born, dead, call, fs_data, ghost,
                   gen, seed>>

NextRules == ParseRules

SpecRules == InitRules /\ [][NextRules]_vars

-----------------------------------------------------------------------------
(* Specification of mod_idx as a function of (i, n) *)

InitModIdx ==
    /\ overflow_checks \in BOOLEAN
    /\ hgt = 1 /\ wth = 1
    /\ rules = NoRules
    /\ field = Canvas_new(1, 1)
    /\ cnt = 0 /\ born = 0 /\ dead = 0
    /\ call \in {[fn |-> "mod_idx", args |-> <<i, n>>] : i \in (-MaxIdx)..MaxIdx, n \in 1..MaxDim}
    /\ ret = Running
    /\ fs_data = <<>>
    /\ ghost = NoGhost
    /\ gen = 0
    /\ seed = {}

CallModIdx ==
    /\ call.fn = "mod_idx" /\ ~ret.done
    /\ ret' = IF overflow_checks /\ mod_idx_overflows(call.args[1], call.args[2])
              THEN Panic("attempt to add with overflow")
              ELSE Ok(mod_idx(call.args[1], call.args[2]))
    /\ UNCHANGED <<overflow_checks, hgt, wth, rules, field, cnt, born, dead, call, fs_data,
                   ghost, gen, seed>>

NextModIdx == CallModIdx

SpecModIdx == InitModIdx /\ [][NextModIdx]_vars

-----------------------------------------------------------------------------
(* Specification of index_move and count_neigh as functions of the grid, the cell
   and the offset *)

\* the grids count_neigh is called on: empty, full, a checkerboard, one alive cell
NeighFills(h, w) ==
    {{}, Cells(h, w), {c \in Cells(h, w) : (c[1] + c[2]) % 2 = 0}, {<<0, 0>>}}

InitNeigh ==
    /\ overflow_checks \in BOOLEAN
    /\ \E h \in 1..MaxDim, w \in 1..MaxDim :
         /\ hgt = h /\ wth = w
         /\ \E c \in Cells(h, w) :
              \/ /\ \E mvi \in -1..1, mvj \in -1..1 :
                       call = [fn |-> "index_move", args |-> <<c[1], c[2], mvi, mvj>>]
                 /\ field = Canvas_new(h, w) /\ cnt = 0
              \/ /\ call = [fn |-> "count_neigh", args |-> <<c[1], c[2]>>]
                 /\ \E a \in NeighFills(h, w) : field = GridOf(h, w, a) /\ cnt = Cardinality(a)
    /\ rules = NoRules
    /\ born = cnt /\ dead = 0
    /\ ret = Running
    /\ fs_data = <<>>
    /\ ghost = NoGhost
    /\ gen = 0
    /\ seed = {}

\* self.index_move(i, j, mvi, mvj)
CallIndexMove ==
    /\ call.fn = "index_move" /\ ~ret.done
    /\ ret' = Ok(index_move(hgt, wth, call.args[1], call.args[2], call.args[3], call.args[4]))
    /\ UNCHANGED <<overflow_checks, hgt, wth, rules, field, cnt, born, dead, call, fs_data,
                   ghost, gen, seed>>

\* self.count_neigh(i, j)
CallCountNeigh ==
    /\ call.fn = "count_neigh" /\ ~ret.done
    /\ ret' = Ok(count_neigh(field, hgt, wth, call.args[1], call.args[2]))
    /\ UNCHANGED <<overflow_checks, hgt, wth, rules, field, cnt, born, dead, call, fs_data,
                   ghost, gen, seed>>

NextNeigh == CallIndexMove \/ CallCountNeigh

SpecNeigh == InitNeigh /\ [][NextNeigh]_vars

-----------------------------------------------------------------------------
(* Specification of the engine: construction, then any sequence of calls *)

GridSizes == {<<1, 1>>, <<1, 2>>, <<2, 2>>, <<3, 1>>}
RULE_0 == <<"0", "-">>
EngineRules == {LIFE, RULE_0}

FileTxt == <<"p", ".", "t", "x", "t">>
FileLif == <<"p", ".", "l", "i", "f">>
FileCells == <<"p", ".", "c", "e", "l", "l", "s">>
FileRle == <<"p", ".", "r", "l", "e">>
FileBmp == <<"p", ".", "b", "m", "p">>

\* the pattern files of the engine specification: [file, data]
PatternFiles ==
    {[file |-> FileTxt, data |-> <<"x", ".", "\n", " ", "x">>],
     [file |-> FileTxt, data |-> <<".", "x", "?", "x">>],
     [file |-> FileLif, data |-> <<"#", "c", "\n", "*", ".", "*">>],
     [file |-> FileCells, data |-> <<"O", "\n", ".", "O", "!", "c">>],
     [file |-> FileRle, data |-> <<"2", "o", "$", "b", "o", "!">>],
     [file |-> FileBmp, data |-> <<"x">>]}

\* where and how the engine specification places them: [i0, j0, t]
Placements ==
    {[i0 |-> 0, j0 |-> 0, t |-> T_NONE],
     [i0 |-> 1, j0 |-> 1, t |-> [rot |-> "Left", mirror |-> TRUE]]}

\* LifeLike::new(hgt, wth, rules)
Init ==
    /\ overflow_checks \in BOOLEAN
    /\ \E sz \in GridSizes : hgt = sz[1] /\ wth = sz[2] /\ field = Canvas_new(sz[1], sz[2])
    /\ \E r \in EngineRules : rules = Rules_new(r).val
    /\ cnt = 0 /\ born = 0 /\ dead = 0
    /\ call = [fn |-> "new", args |-> <<>>]
    /\ ret = Ok(<<>>)
    /\ fs_data = <<>>
    /\ ghost = NoGhost
    /\ gen = 0
    /\ seed = {}

\* self.field[[i, j]].birth()
Birth(i, j) ==
    /\ ~ret.panic
    /\ field' = [field EXCEPT ![i][j] = Cell_birth(@)]
    /\ call' = [fn |-> "birth", args |-> <<>>]
    /\ ret' = Ok(<<>>)
    /\ fs_data' = <<>> /\ ghost' = NoGhost
    /\ UNCHANGED <<overflow_checks, hgt, wth, rules, cnt, born, dead, gen, seed>>

\* self.field[[i, j]].kill()
Kill(i, j) ==
    /\ ~ret.panic
    /\ field' = [field EXCEPT ![i][j] = Cell_kill(@)]
    /\ call' = [fn |-> "kill", args |-> <<>>]
    /\ ret' = Ok(<<>>)
    /\ fs_data' = <<>> /\ ghost' = NoGhost
    /\ UNCHANGED <<overflow_checks, hgt, wth, rules, cnt, born, dead, gen, seed>>

\* LifeLike::update()
Update ==
    /\ ~ret.panic
    /\ \E u \in {LifeLike_update(field, hgt, wth, cnt, overflow_checks)} :
          /\ field' = u.field /\ cnt' = u.cnt /\ born' = u.born /\ dead' = u.dead
          /\ ret' = u.ret
    /\ call' = [fn |-> "update", args |-> <<>>]
    /\ fs_data' = <<>> /\ ghost' = NoGhost
    /\ UNCHANGED <<overflow_checks, hgt, wth, rules, gen, seed>>

\* LifeLike::next()
Next_ ==
    /\ ~ret.panic
    /\ \E u \in {LifeLike_next(field, hgt, wth, rules, cnt, overflow_checks)} :
          /\ field' = u.field /\ cnt' = u.cnt /\ born' = u.born /\ dead' = u.dead
          /\ ret' = u.ret
    /\ call' = [fn |-> "next", args |-> <<>>]
    /\ fs_data' = <<>> /\ ghost' = NoGhost
    /\ UNCHANGED <<overflow_checks, hgt, wth, rules, gen, seed>>

\* LifeLike::add_from_file(file, i0, j0, t), the file holding data
AddFromFile(file, data, oi, oj, t) ==
    /\ ~ret.panic
    /\ \E u \in {add_from_file(field, hgt, wth, cnt, born, dead, overflow_checks,
                                file, data, oi, oj, t)} :
          /\ field' = u.field /\ cnt' = u.cnt /\ born' = u.born /\ dead' = u.dead
          /\ ret' = u.ret /\ ghost' = u.ghost
    /\ call' = [fn |-> "add_from_file", args |-> <<file, oi, oj, t>>]
    /\ fs_data' = data
    /\ UNCHANGED <<overflow_checks, hgt, wth, rules>>

Next ==
    \/ \E i \in 0..(hgt - 1), j \in 0..(wth - 1) : Birth(i, j)
    \/ \E i \in 0..(hgt - 1), j \in 0..(wth - 1) : Kill(i, j)
    \/ Update
    \/ Next_
    \/ \E pf \in PatternFiles, pl \in Placements :
           AddFromFile(pf.file, pf.data, pl.i0, pl.j0, pl.t) /\ UNCHANGED <<gen, seed>>

Spec == Init /\ [][Next]_vars

-----------------------------------------------------------------------------
(* Specification of the public operations of LifeLike: new, then any sequence of
   init_rand, init_cluster, add_from_file, update and next *)

PublicSizes == {<<1, 1>>, <<1, 2>>, <<2, 2>>, <<3, 1>>, <<2, 3>>}

\* the proportions f given to init_cluster, as fractions
ClusterFractions == {<<0, 1>>, <<1, 2>>, <<1, 1>>}

InitPublic ==
    /\ overflow_checks \in BOOLEAN
    /\ \E sz \in PublicSizes : hgt = sz[1] /\ wth = sz[2] /\ field = Canvas_new(sz[1], sz[2])
    /\ \E r \in EngineRules : rules = Rules_new(r).val
    /\ cnt = 0 /\ born = 0 /\ dead = 0
    /\ call = [fn |-> "new", args |-> <<>>]
    /\ ret = Ok(<<>>)
    /\ fs_data = <<>>
    /\ ghost = NoGhost
    /\ gen = 0
    /\ seed = {}

\* LifeLike::init_rand(p), the draws selecting the cells of a
InitRand(a) ==
    /\ ~ret.panic
    /\ \E u \in {LifeLike_init_rand(field, hgt, wth, cnt, overflow_checks, a)} :
          /\ field' = u.field /\ cnt' = u.cnt /\ born' = u.born /\ dead' = u.dead
          /\ ret' = u.ret
    /\ call' = [fn |-> "init_rand", args |-> <<>>]
    /\ fs_data' = <<>> /\ ghost' = NoGhost
    /\ UNCHANGED <<overflow_checks, hgt, wth, rules, gen, seed>>

\* LifeLike::init_cluster(f, p), the draws selecting the cells of a in the cluster
InitCluster(fr, a) ==
    /\ ~ret.panic
    /\ a \subseteq ClusterCells(hgt, wth, fr)
    /\ \E u \in {LifeLike_init_rand(field, hgt, wth, cnt, overflow_checks, a)} :
          /\ field' = u.field /\ cnt' = u.cnt /\ born' = u.born /\ dead' = u.dead
          /\ ret' = u.ret
    /\ call' = [fn |-> "init_cluster", args |-> <<fr>>]
    /\ fs_data' = <<>> /\ ghost' = NoGhost
    /\ UNCHANGED <<overflow_checks, hgt, wth, rules, gen, seed>>

NextPublic ==
    \/ \E a \in SUBSET Cells(hgt, wth) : InitRand(a)
    \/ \E fr \in ClusterFractions : \E a \in SUBSET ClusterCells(hgt, wth, fr) : InitCluster(fr, a)
    \/ Update
    \/ Next_
    \/ \E pf \in PatternFiles, pl \in Placements :
           AddFromFile(pf.file, pf.data, pl.i0, pl.j0, pl.t) /\ UNCHANGED <<gen, seed>>

SpecPublic == InitPublic /\ [][NextPublic]_vars

-----------------------------------------------------------------------------
(* Specification of next() from every settled grid *)

StepSizes == {<<1, 1>>, <<1, 2>>, <<2, 1>>, <<2, 2>>, <<1, 3>>, <<3, 2>>, <<3, 3>>}
StepRules == {LIFE, SEEDS, RULE_0, REPLICATOR, NODEATH, <<"8", "-", "0", "8">>}

\* a grid settled by init_rand: any set of cells born, then update()
InitStep ==
    /\ overflow_checks \in BOOLEAN
    /\ \E sz \in StepSizes :
         /\ hgt = sz[1] /\ wth = sz[2]
         /\ \E a \in SUBSET Cells(sz[1], sz[2]) :
              /\ field = GridOf(sz[1], sz[2], a)
              /\ cnt = Cardinality(a) /\ born = Cardinality(a)
    /\ \E r \in StepRules : rules = Rules_new(r).val
    /\ dead = 0
    /\ call = [fn |-> "init_rand", args |-> <<>>]
    /\ ret = Ok(<<>>)
    /\ fs_data = <<>>
    /\ ghost = NoGhost
    /\ gen = 0
    /\ seed = {}

NextStep == Next_

SpecStep == InitStep /\ [][NextStep]_vars

-----------------------------------------------------------------------------
(* Specification of the glider run: a 5x5 grid under LIFE, seeded, then next() *)

GliderSize == <<5, 5>>
GliderTxt == <<".", "x", ".", "\n", ".", ".", "x", "\n", "x", "x", "x", "\n">>

InitGlider ==
    /\ overflow_checks \in BOOLEAN
    /\ hgt = GliderSize[1] /\ wth = GliderSize[2]
    /\ field = Canvas_new(GliderSize[1], GliderSize[2])
    /\ rules = Rules_new(LIFE).val
    /\ cnt = 0 /\ born = 0 /\ dead = 0
    /\ call = [fn |-> "new", args |-> <<>>]
    /\ ret = Ok(<<>>)
    /\ fs_data = <<>>
    /\ ghost = NoGhost
    /\ gen = 0
    /\ seed = {}

\* add_from_file("glider.txt", i0, j0, T_NONE) on the new grid
SeedGlider(oi, oj) ==
    /\ call.fn = "new"
    /\ AddFromFile(FileTxt, GliderTxt, oi, oj, T_NONE)
    /\ seed' = Alive(field', hgt, wth)
    /\ gen' = 0

\* next() on the seeded grid
GliderNext ==
    /\ call.fn \in {"add_from_file", "next"}
    /\ gen < MaxGen
    /\ ~ret.panic
    /\ \E u \in {LifeLike_next(field, hgt, wth, rules, cnt, overflow_checks)} :
          /\ field' = u.field /\ cnt' = u.cnt /\ born' = u.born /\ dead' = u.dead
          /\ ret' = u.ret
    /\ call' = [fn |-> "next", args |-> <<>>]
    /\ fs_data' = <<>> /\ ghost' = NoGhost
    /\ gen' = gen + 1
    /\ UNCHANGED <<overflow_checks, hgt, wth, rules, seed>>

NextGlider ==
    \/ \E oi \in 0..(hgt - 1), oj \in 0..(wth - 1) : SeedGlider(oi, oj)
    \/ GliderNext

SpecGlider == InitGlider /\ [][NextGlider]_vars

-----------------------------------------------------------------------------
(* Specification of one pattern load as a function of the file and the placement *)

LoadSize == <<3, 5>>

TxtAlphabet == {"x", ".", " ", "\n", "\r", "?"}
LifAlphabet == {"*", ".", "#", "\n", "?"}
CellsAlphabet == {"O", ".", "!", "\n", "?"}
RleAlphabet == {"o", "b", "$", "2", "!", "#"}

TxtExamples == {<<"x", "U+0178", "x">>, <<"U+0178">>}
RleExamples ==
    {<<"2", "o", " ", "b", "2", "o", "$", "!">>,
     <<"2", "o", "b", "2", "o", "$", "!">>,
     <<"2", "o", "b", "2", "o", "$", "!", "?", "o">>,
     <<"x", " ", "=", "\n", "1", "2", "o", "\r", "\n", "b", "!">>,
     <<"0", "o">>, <<"0", "b">>, <<"0", "$">>, <<"0", "0", "o">>, <<"2", "0", "b">>,
     <<"#", "!", "\n", "o", "!", "?", "o">>,
     <<"o", "!", "$", "2", "b">>,
     <<"o", "x", "?", " ", "o", "\n", "b", "o", "#", "$">>}

\* file names for the dispatch on the extension
DispatchFiles ==
    {FileTxt, FileLif, FileCells, FileRle, FileBmp,
     <<"a", ".", "r", "l", "e", ".", "t", "x", "t">>,
     <<"p", ".", "t", "x", "t", ".", "b", "a", "k">>,
     <<"p", ".", "T", "X", "T">>,
     <<"p", ".">>,
     <<"t", "x", "t">>}

LoadFiles ==
    {[file |-> FileTxt, data |-> d] : d \in TextsUpTo(TxtAlphabet, MaxLen) \cup TxtExamples}
        \cup {[file |-> FileLif, data |-> d] : d \in TextsUpTo(LifAlphabet, MaxLen)}
        \cup {[file |-> FileCells, data |-> d] : d \in TextsUpTo(CellsAlphabet, MaxLen)}
        \cup {[file |-> FileRle, data |-> d] : d \in TextsUpTo(RleAlphabet, MaxLen) \cup RleExamples}
        \cup {[file |-> FileBmp, data |-> <<"x">>]}
        \cup {[file |-> f, data |-> <<c>>] : f \in DispatchFiles, c \in {"x", "*", "O", "o"}}

LoadOrigins == {<<0, 0>>, <<-4, -6>>}

\* the grids a load starts from: empty, or a settled checkerboard
LoadStarts == {{}, {c \in Cells(LoadSize[1], LoadSize[2]) : (c[1] + c[2]) % 2 = 0}}

InitLoad ==
    /\ overflow_checks \in BOOLEAN
    /\ hgt = LoadSize[1] /\ wth = LoadSize[2]
    /\ \E a \in LoadStarts :
         /\ field = GridOf(LoadSize[1], LoadSize[2], a)
         /\ cnt = Cardinality(a) /\ born = Cardinality(a)
         /\ seed = a
    /\ rules = Rules_new(LIFE).val
    /\ dead = 0
    /\ \E pf \in LoadFiles, o \in LoadOrigins, t \in Transforms :
         /\ call = [fn |-> "add_from_file", args |-> <<pf.file, o[1], o[2], t>>]
         /\ fs_data = pf.data
    /\ ret = Running
    /\ ghost = NoGhost
    /\ gen = 0

Load ==
    /\ call.fn = "add_from_file" /\ ~ret.done
    /\ AddFromFile(call.args[1], fs_data, call.args[2], call.args[3], call.args[4])
    /\ UNCHANGED <<gen, seed>>

NextLoad == Load

SpecLoad == InitLoad /\ [][NextLoad]_vars

-----------------------------------------------------------------------------
(* Claims about Rules::new (SpecRules) *)

RuleDone == call.fn = "Rules::new" /\ ret.done
RuleStr == call.args[1]

\* the positions of the separator in a rule string
SepAt(s) == {k \in 1..Len(s) : s[k] = "-"}

\* digit d occurs in positions lo..hi of s
Occurs(s, lo, hi, d) == \E k \in lo..hi : s[k] = Digits[d + 1]

\* s is "<B>-<S>" with B and S made of the digits 0..8 only
WellFormedRule(s) ==
    /\ Cardinality(SepAt(s)) = 1
    /\ \A k \in 1..Len(s) : s[k] = "-" \/ to_digit(s[k]) \in 0..8

TableOf(set) == [d \in 0..8 |-> d \in set]

\* C5: for every rule string "<B>-<S>" over the digits 0..8 the parse succeeds and
\* birth[d] holds iff d occurs in B, survive[d] iff d occurs in S, whatever the order
\* or the repetitions; "3-23" gives birth {3}, survive {2,3}; "2-" gives birth {2},
\* survive {}.
C5_RuleParsing ==
    RuleDone =>
        /\ WellFormedRule(RuleStr) =>
             LET sep == CHOOSE k \in SepAt(RuleStr) : TRUE IN
             /\ ~ret.panic
             /\ \A d \in 0..8 :
                  /\ ret.val.b[d] <=> Occurs(RuleStr, 1, sep - 1, d)
                  /\ ret.val.s[d] <=> Occurs(RuleStr, sep + 1, Len(RuleStr), d)
        /\ RuleStr = LIFE => ~ret.panic /\ ret.val = [b |-> TableOf({3}), s |-> TableOf({2, 3})]
        /\ RuleStr = SEEDS => ~ret.panic /\ ret.val = [b |-> TableOf({2}), s |-> TableOf({})]

\* a rule with a repeated, unordered side and an empty side has been parsed
C5_Witness ==
    /\ RuleDone /\ ~ret.panic
    /\ RuleStr = <<"3", "2", "3", "-">>
    /\ ret.val = [b |-> TableOf({2, 3}), s |-> TableOf({})]
    /\ rules = ret.val

\* C8: parsing fails for every rule string that does not contain exactly one '-'
\* (none, or two or more), and no Rules value is produced for it.
C8_SeparatorCheck ==
    (RuleDone /\ Cardinality(SepAt(RuleStr)) # 1) => (ret.panic /\ rules = NoRules)

\* C9: parsing fails whenever a piece of the rule string on either side of a '-'
\* holds a non-digit character or the digit 9 (a 9 is never silently ignored), and an
\* accepted rule has tables indexed by 0..8 only.
C9_DigitCheck ==
    RuleDone =>
        /\ (/\ SepAt(RuleStr) # {}
            /\ \E k \in 1..Len(RuleStr) : RuleStr[k] # "-" /\ to_digit(RuleStr[k]) \notin 0..8)
           => ret.panic
        /\ ~ret.panic => DOMAIN ret.val.b = 0..8 /\ DOMAIN ret.val.s = 0..8

-----------------------------------------------------------------------------
(* Claims about next() and the counters *)

\* every cell's pending state equals its current state
Settled(f, h, w) == \A c \in Cells(h, w) : f[c[1]][c[2]].succ = f[c[1]][c[2]].curr

MooreOffsets == {d \in (-1..1) \X (-1..1) : d # <<0, 0>>}

\* the number of offsets of the Moore neighbourhood of (i, j) that lead, on the torus,
\* to a cell alive in f
AliveNeighbours(f, h, w, i, j) ==
    Cardinality({d \in MooreOffsets : f[(i + d[1]) % h][(j + d[2]) % w].curr})

\* the state the rule gives cell (i, j) of f
RuleOutcome(f, h, w, r, i, j) ==
    LET n == AliveNeighbours(f, h, w, i, j)
    IN \/ f[i][j].curr /\ r.s[n]
       \/ ~f[i][j].curr /\ r.b[n]

\* C1: from a settled grid, one next() leaves each cell alive iff (it was alive and
\* survive[n]) or (it was dead and birth[n]), n counted over its eight toroidal
\* neighbours in the grid as it was before the call; on a 3x3 all-dead grid with rule
\* "0-" one next() makes all nine cells alive.
C1_SimultaneousUpdate ==
    [][(call'.fn = "next" /\ Settled(field, hgt, wth)) =>
          /\ \A c \in Cells(hgt, wth) :
               field'[c[1]][c[2]].curr <=> RuleOutcome(field, hgt, wth, rules, c[1], c[2])
          /\ (hgt = 3 /\ wth = 3 /\ rules = Rules_new(RULE_0).val
                /\ Alive(field, hgt, wth) = {})
             => Alive(field', hgt, wth) = Cells(3, 3)]_vars

\* next() has made all nine cells of a 3x3 grid alive at once under rule "0-"
C1_Witness ==
    /\ call.fn = "next" /\ ~ret.panic
    /\ hgt = 3 /\ wth = 3 /\ rules = Rules_new(RULE_0).val
    /\ born = 9 /\ dead = 0
    /\ Alive(field, hgt, wth) = Cells(3, 3)

\* C2: after any sequence of birth/kill calls, pattern loads, update() and next()
\* calls, cnt equals the number of cells whose current state is alive.
C2_CounterConsistency == cnt = Cardinality(Alive(field, hgt, wth))

\* a load over a non-empty grid has committed births and deaths
C2_Witness ==
    /\ call.fn = "add_from_file" /\ ~ret.panic
    /\ born >= 1 /\ dead >= 1 /\ cnt >= 2

\* the cells of a translated by (di, dj) on the h x w torus
Translate(a, h, w, di, dj) == {<<(c[1] + di) % h, (c[2] + dj) % w>> : c \in a}

\* C4: on a 5x5 torus under "3-23", seeded with the glider (.x. / ..x / xxx) and
\* committed, after exactly 4 calls of next() the alive cells are exactly the seeded
\* ones translated by (+1, +1) modulo 5, and the alive counter is 5.
C4_GliderStability ==
    (call.fn = "next" /\ gen = 4) =>
        /\ Cardinality(seed) = 5
        /\ Alive(field, hgt, wth) = Translate(seed, hgt, wth, 1, 1)
        /\ cnt = 5

\* the glider seeded at the bottom right corner has crossed both edges in 4 generations
C4_Witness ==
    /\ call.fn = "next" /\ gen = 4
    /\ seed = {<<3, 0>>, <<4, 1>>, <<0, 4>>, <<0, 0>>, <<0, 1>>}
    /\ Alive(field, hgt, wth) = {<<4, 1>>, <<0, 2>>, <<1, 0>>, <<1, 1>>, <<1, 2>>}

\* the rule pass of next() visiting the cells in the order given: order[k] is the
\* row-major number of the k-th cell visited
RECURSIVE RulePass(_, _, _, _, _, _)
RulePass(f, h, w, r, order, k) ==
    IF k > Len(order) THEN f
    ELSE CHOOSE res \in {RulePass(g, h, w, r, order, k + 1) :
                             g \in {RuleCell(f, h, w, r, order[k] \div w, order[k] % w)}} : TRUE

\* visiting orders of n cells: every permutation for n up to MaxPermCells; for a
\* larger grid the reverse of the row-major order started at every cell, and the
\* order by columns
Orders(n, w) ==
    IF n <= MaxPermCells
    THEN {p \in [1..n -> 0..(n - 1)] : \A a \in 1..n, b \in 1..n : a # b => p[a] # p[b]}
    ELSE {[k \in 1..n |-> (s + n - k) % n] : s \in 0..(n - 1)}
           \cup {[k \in 1..n |-> ((k - 1) % (n \div w)) * w + ((k - 1) \div (n \div w))]}

\* C16: the grid and the counters one next() produces are those of the rule pass made
\* in any order of the cells (row-major as in the code, or another permutation)
\* followed by the commit: the pass reads current fields and writes pending fields only.
C16_OrderIndependence ==
    [][call'.fn = "next" =>
          \A order \in Orders(hgt * wth, wth) :
             \E u \in {LifeLike_update(RulePass(field, hgt, wth, rules, order, 1),
                                        hgt, wth, cnt, overflow_checks)} :
                /\ field' = u.field /\ cnt' = u.cnt /\ born' = u.born /\ dead' = u.dead
                /\ ret' = u.ret]_vars

\* next() under "3-23" has taken a 3x3 torus from three alive cells to nine: six
\* births decided on the grid as it was, whichever cell is visited first
C16_Witness ==
    /\ call.fn = "next" /\ ~ret.panic
    /\ hgt = 3 /\ wth = 3 /\ rules = Rules_new(LIFE).val
    /\ born = 6 /\ dead = 0 /\ cnt = 9

\* the step ends with a commit: update(), next(), or a load that reached its update()
Commits(fn, outcome) ==
    \/ fn \in {"update", "next"}
    \/ fn = "add_from_file" /\ (~outcome.panic \/ outcome.msg.kind = "attempt to subtract with overflow")

\* C17: each commit resets born and dead, then born is the number of cells whose
\* current state went dead->alive in that commit and dead the number that went
\* alive->dead (a cell whose pending state equals its current state counts in
\* neither); the alive counter afterwards is the one before plus born minus dead, and
\* the unsigned `cnt += born; cnt -= dead` never underflows.  A call without a commit
\* leaves the three counters alone.
C17_GenerationCounters ==
    [][/\ Commits(call'.fn, ret') =>
            /\ ~ret'.panic
            /\ born' = Cardinality({c \in Cells(hgt, wth) :
                                      ~field[c[1]][c[2]].curr /\ field'[c[1]][c[2]].curr})
            /\ dead' = Cardinality({c \in Cells(hgt, wth) :
                                      field[c[1]][c[2]].curr /\ ~field'[c[1]][c[2]].curr})
            /\ call'.fn = "update" =>
                 /\ born' = Cardinality({c \in Cells(hgt, wth) :
                                           ~field[c[1]][c[2]].curr /\ field[c[1]][c[2]].succ})
                 /\ dead' = Cardinality({c \in Cells(hgt, wth) :
                                           field[c[1]][c[2]].curr /\ ~field[c[1]][c[2]].succ})
            /\ cnt + born' >= dead'
            /\ cnt' = cnt + born' - dead'
            /\ cnt' >= 0
       /\ ~Commits(call'.fn, ret') => (cnt' = cnt /\ born' = born /\ dead' = dead)]_vars

\* an update() has committed one birth and two deaths at once, after a generation
\* whose counters were different
C17_Witness ==
    /\ call.fn = "update" /\ ~ret.panic
    /\ born = 1 /\ dead = 2 /\ cnt = 1
    /\ Cardinality(Alive(field, hgt, wth)) = 1
    /\ Settled(field, hgt, wth)

\* the grid f with every pending field inverted
OtherPending(f, h, w) ==
    [i \in 0..(h - 1) |-> [j \in 0..(w - 1) |-> [f[i][j] EXCEPT !.succ = ~f[i][j].succ]]]

\* C18: birth() and kill() on a cell change that cell's pending field and nothing
\* else: every cell's current state, the alive counter and the born/dead counters are
\* as before (until the next commit), and what neighbour counting, is_alive and the
\* colour given to the renderer return is the same before and after the call, and the
\* same on the grid with every pending field inverted: they read current fields only.
C18_PendingOnly ==
    [][call'.fn \in {"birth", "kill"} =>
          /\ \E c \in Cells(hgt, wth) :
                /\ field'[c[1]][c[2]].succ = (call'.fn = "birth")
                /\ \A e \in Cells(hgt, wth) \ {c} : field'[e[1]][e[2]] = field[e[1]][e[2]]
          /\ \A c \in Cells(hgt, wth) : field'[c[1]][c[2]].curr = field[c[1]][c[2]].curr
          /\ cnt' = cnt /\ born' = born /\ dead' = dead
          /\ \E g \in {OtherPending(field', hgt, wth)} : \A c \in Cells(hgt, wth) :
                \E n \in {count_neigh(field', hgt, wth, c[1], c[2])} :
                   /\ n = count_neigh(field, hgt, wth, c[1], c[2])
                   /\ n = count_neigh(g, hgt, wth, c[1], c[2])
                   /\ is_alive(field'[c[1]][c[2]]) = is_alive(field[c[1]][c[2]])
                   /\ is_alive(g[c[1]][c[2]]) = is_alive(field[c[1]][c[2]])
                   /\ Cell_color(field'[c[1]][c[2]]) = Cell_color(field[c[1]][c[2]])
                   /\ Cell_color(g[c[1]][c[2]]) = Cell_color(field[c[1]][c[2]])]_vars

\* a kill() has just been made while one alive cell is pending dead and one dead cell
\* is pending alive: the counters still show the committed grid
C18_Witness ==
    /\ call.fn = "kill" /\ ~ret.panic
    /\ \E c \in Cells(hgt, wth) : field[c[1]][c[2]].curr /\ ~field[c[1]][c[2]].succ
    /\ \E c \in Cells(hgt, wth) : ~field[c[1]][c[2]].curr /\ field[c[1]][c[2]].succ
    /\ cnt = Cardinality(Alive(field, hgt, wth)) /\ cnt >= 2
    /\ born = cnt /\ dead = 0

\* C19: after construction and after every completed public operation (update(),
\* next(), a successful add_from_file, init_rand, init_cluster; each ends with a commit)
\* every cell's pending state equals its current state; so every next() starts from
\* a settled grid, and a cell that its rule pass does not write keeps its current
\* state through the commit that follows.
C19_SettledState ==
    /\ [](~ret.panic => Settled(field, hgt, wth))
    /\ [][call'.fn = "next" =>
            /\ Settled(field, hgt, wth)
            /\ \E pass \in {RuleLoop(field, hgt, wth, rules, 0)} : \A c \in Cells(hgt, wth) :
                  pass[c[1]][c[2]] = field[c[1]][c[2]]
                     => field'[c[1]][c[2]].curr = field[c[1]][c[2]].curr]_vars

\* next() under "3-23" on a 3x1 grid: the one alive cell was not written by the rule
\* pass and is still alive, next to the two cells just born
C19_Witness ==
    /\ call.fn = "next" /\ ~ret.panic
    /\ hgt = 3 /\ wth = 1 /\ rules = Rules_new(LIFE).val
    /\ born = 2 /\ dead = 0 /\ cnt = 3
    /\ Settled(field, hgt, wth)

-----------------------------------------------------------------------------
(* Claims about pattern loading (SpecLoad) *)

LoadDone == call.fn = "add_from_file" /\ ret.done
LoadFile == call.args[1]
LoadT == call.args[4]

\* the first position of text whose character is in (or, with inside = FALSE, out of) set
FirstAt(text, set, inside) ==
    LET at == {k \in 1..Len(text) : (text[k] \in set) = inside}
    IN CHOOSE k \in at : \A m \in at : k <= m

\* a load of the rle text `text` with the identity transform at origin (0, 0) on an
\* empty grid has ended
RleExampleLoaded(text) ==
    /\ LoadDone /\ LoadFile = FileRle /\ fs_data = text
    /\ LoadT = T_NONE /\ call.args[2] = 0 /\ call.args[3] = 0
    /\ seed = {}

\* alive at (0,0), (0,1), dead at (0,2), alive at (0,3), (0,4), parsing stopped at '!'
RleExamplePlaced ==
    /\ ~ret.panic
    /\ \A j \in {0, 1, 3, 4} : field[0][j].curr /\ field[0][j].succ
    /\ ~field[0][2].curr /\ ~field[0][2].succ
    /\ ghost.consumed = FirstAt(fs_data, {"!"}, TRUE)

\* C6 as stated: loading the rle text "2o b2o$!" with the identity transform at
\* origin (0,0) on an empty grid completes without error, places alive cells at (0,0),
\* (0,1), a dead cell at (0,2), alive cells at (0,3), (0,4), and stops at '!'.
C6_RleExampleWithSpace ==
    RleExampleLoaded(<<"2", "o", " ", "b", "2", "o", "$", "!">>) => RleExamplePlaced

\* C6 amended: the same for the rle text "2ob2o$!" (no space), on an empty grid that
\* is at least 5 cells wide, also when other bytes follow the '!'.
C6_RleExample ==
    (\/ RleExampleLoaded(<<"2", "o", "b", "2", "o", "$", "!">>)
     \/ RleExampleLoaded(<<"2", "o", "b", "2", "o", "$", "!", "?", "o">>))
    => /\ RleExamplePlaced
       /\ Alive(field, hgt, wth) = {<<0, 0>>, <<0, 1>>, <<0, 3>>, <<0, 4>>}
       /\ cnt = 4 /\ born = 4
       /\ ghost.consumed = 7

\* "2ob2o$!" followed by other bytes has been loaded on the empty grid
C6_Witness ==
    /\ RleExampleLoaded(<<"2", "o", "b", "2", "o", "$", "!", "?", "o">>)
    /\ ~ret.panic
    /\ Alive(field, hgt, wth) = {<<0, 0>>, <<0, 1>>, <<0, 3>>, <<0, 4>>}
    /\ ghost.consumed = 7

TxtAccepted == {"x", ".", " ", "\n", "\r"}

HexValue(b) == IF b \in 48..57 THEN b - 48 ELSE b - 97 + 10

\* the byte an escape sequence displayed by the panic stands for
Unescape(sh) ==
    CASE Len(sh) = 1 -> sh[1]
      [] Len(sh) = 2 -> (CASE sh[2] = 116 -> 9 [] sh[2] = 114 -> 13 [] sh[2] = 110 -> 10
                           [] OTHER -> sh[2])
      [] Len(sh) = 4 -> 16 * HexValue(sh[3]) + HexValue(sh[4])

Placements_(trace) == SelectSeq(trace, LAMBDA e : e.op \in {"birth", "kill"})

\* the pending state of cell (r, c) after the placements of trace on a grid whose cell
\* was `before`
PendingAfter(trace, r, c, before) ==
    LET at == {k \in 1..Len(trace) : trace[k].op \in {"birth", "kill"}
                                     /\ trace[k].row = r /\ trace[k].col = c}
    IN IF at = {} THEN before
       ELSE trace[CHOOSE k \in at : \A m \in at : m <= k].op = "birth"

\* C7: loading a txt pattern with a character outside {x, ., space, newline, CR} ends
\* in an unrecognized-symbol error that names the offending character; the symbols
\* before it have had their birth/kill applied, and nothing at or after it is applied.
C7_UnrecognizedSymbol ==
    (LoadDone /\ LoadFile = FileTxt /\ \E k \in 1..Len(fs_data) : fs_data[k] \notin TxtAccepted)
    => LET bad == FirstAt(fs_data, TxtAccepted, FALSE) IN
       /\ ret.panic /\ ret.msg.kind = "unknown character"
       /\ Unescape(ret.msg.shown) = Ord(fs_data[bad])
       /\ ghost.consumed = bad
       /\ Len(Placements_(ghost.trace))
            = Cardinality({k \in 1..(bad - 1) : fs_data[k] \in {"x", "."}})
       /\ Alive(field, hgt, wth) = seed
       /\ \A c \in Cells(hgt, wth) :
            field[c[1]][c[2]].succ = PendingAfter(ghost.trace, c[1], c[2], c \in seed)

\* what each tag's run stands for in the trace
TagOp(tag) == CASE tag = "o" -> "birth" [] tag = "b" -> "kill" [] tag = "$" -> "newline"

Copies(n, x) == [k \in 1..n |-> x]

\* the operations an rle text of digits and tags stands for: a tag with a prefix of
\* value n applies n times, a tag without a prefix once
RECURSIVE ExpandRuns(_, _, _, _)
ExpandRuns(text, k, n, prefixed) ==
    IF k > Len(text) THEN <<>>
    ELSE IF to_digit(text[k]) >= 0
         THEN ExpandRuns(text, k + 1, n * 10 + to_digit(text[k]), TRUE)
         ELSE Copies(IF prefixed THEN n ELSE 1, TagOp(text[k]))
                  \o ExpandRuns(text, k + 1, 0, FALSE)

\* C10: in the rle parser a prefix of decimal digits with value N makes the tag apply
\* exactly N times, a tag without a prefix applies once, and the run count never
\* carries over to the following tag.
C10_RleRunCounts ==
    (/\ LoadDone /\ LoadFile = FileRle /\ ~ret.panic
     /\ \A k \in 1..Len(fs_data) : fs_data[k] \in {"o", "b", "$"} \/ to_digit(fs_data[k]) >= 0)
    => [k \in 1..Len(ghost.trace) |-> ghost.trace[k].op] = ExpandRuns(fs_data, 1, 0, FALSE)

\* the grid and the counters a load started from (a load leaves seed unchanged)
LoadBefore == GridOf(hgt, wth, seed)
LoadOrigin == <<call.args[2], call.args[3]>>

\* the outcome of the same call on a file holding `text` instead
LoadOf(text) ==
    add_from_file(LoadBefore, hgt, wth, Cardinality(seed), Cardinality(seed), 0,
                  overflow_checks, LoadFile, text, LoadOrigin[1], LoadOrigin[2], LoadT)

\* the outcome recorded in the state
LoadOutcome ==
    [field |-> field, cnt |-> cnt, born |-> born, dead |-> dead, ret |-> ret, ghost |-> ghost]

\* the position of the first '!' of an rle text that is not inside a '#'/'x' comment
\* line, 0 if there is none
RECURSIVE RleTerminator(_, _, _)
RleTerminator(text, k, commented) ==
    IF k > Len(text) THEN 0
    ELSE IF commented THEN RleTerminator(text, k + 1, text[k] # "\n")
    ELSE IF text[k] = "!" THEN k
    ELSE RleTerminator(text, k + 1, text[k] \in {"#", "x"})

\* C11: in the rle parser the first '!' outside a comment line ends parsing: the load
\* does exactly what it does on the text cut after that '!' (no character after it,
\* legal or not, mutates a cell, moves the cursor or raises an error), and when the
\* '!' is reached the load commits: nothing past it is consumed and the grid is settled.
C11_RleTerminator ==
    (LoadDone /\ LoadFile = FileRle /\ RleTerminator(fs_data, 1, FALSE) > 0) =>
        LET bang == RleTerminator(fs_data, 1, FALSE) IN
        /\ bang < Len(fs_data) => LoadOutcome = LoadOf(SubSeq(fs_data, 1, bang))
        /\ ghost.consumed <= bang
        /\ ret.panic => ghost.consumed < bang
        /\ ~ret.panic =>
             /\ ghost.consumed = bang
             /\ Settled(field, hgt, wth)
             /\ cnt = Cardinality(Alive(field, hgt, wth))

\* "#!\no!?o" has been loaded: the '!' of the comment is passed, the second one ends
\* the load before the illegal '?', and the one birth is committed
C11_Witness ==
    /\ LoadDone /\ LoadFile = FileRle /\ ~ret.panic
    /\ fs_data = <<"#", "!", "\n", "o", "!", "?", "o">>
    /\ LoadOrigin = <<0, 0>> /\ LoadT = T_NONE /\ seed = {}
    /\ ghost.consumed = 5
    /\ Alive(field, hgt, wth) = {<<0, 0>>}
    /\ born = 1

-----------------------------------------------------------------------------
(* Claims about the placement of a pattern (SpecLoad) *)

\* the displacement the eight symmetries give text row r, column c
D(t, r, c) ==
    CASE t.rot = "None" /\ ~t.mirror -> <<r, c>>
      [] t.rot = "None" /\ t.mirror -> <<r, -c>>
      [] t.rot = "Double" /\ ~t.mirror -> <<-r, -c>>
      [] t.rot = "Double" /\ t.mirror -> <<-r, c>>
      [] t.rot = "Left" /\ ~t.mirror -> <<-c, r>>
      [] t.rot = "Left" /\ t.mirror -> <<-c, -r>>
      [] t.rot = "Right" /\ ~t.mirror -> <<c, -r>>
      [] t.rot = "Right" /\ t.mirror -> <<c, r>>

\* the cursor after n steps of step (an advance or a newline)
RECURSIVE Steps(_, _, _)
Steps(step(_), at, n) == IF n = 0 THEN at ELSE Steps(step, step(at), n - 1)

\* the cursor on text row r, column c of a pattern placed at origin o: r newlines,
\* then c advances
CursorAt(t, o, r, c) ==
    LET line == Steps(LAMBDA at : Transform_newline(t, at[1], at[2], o[1], o[2]), o, r)
    IN Steps(LAMBDA at : Transform_next(t, at[1], at[2]), line, c)

\* the cursor follows D, the advance of Left and Right ignores the mirror flag, a
\* newline anywhere on a line puts the cross-axis coordinate back to the origin's, and
\* the eight maps are pairwise distinct
TransformTable(o) ==
    /\ \A t \in Transforms, r \in 0..MaxLen, c \in 0..MaxLen :
         /\ CursorAt(t, o, r, c) = <<o[1] + D(t, r, c)[1], o[2] + D(t, r, c)[2]>>
         /\ LET at == CursorAt(t, o, r, c)
                nl == Transform_newline(t, at[1], at[2], o[1], o[2])
            IN nl = CursorAt(t, o, r + 1, 0)
         /\ t.rot \in {"Left", "Right"} =>
              LET at == CursorAt(t, o, r, c)
              IN Transform_next(t, at[1], at[2])
                   = Transform_next([t EXCEPT !.mirror = ~t.mirror], at[1], at[2])
    /\ \A t1 \in Transforms, t2 \in Transforms :
         t1 # t2 => \E r \in 0..1, c \in 0..1 : CursorAt(t1, o, r, c) # CursorAt(t2, o, r, c)
    /\ Cardinality(Transforms) = 8

\* the symbol that births a cell in the format of a file, and the symbols of the
\* format that are neither a comment nor illegal
AliveSymbol(file) ==
    CASE file = FileTxt -> "x" [] file = FileLif -> "*" [] file = FileCells -> "O"

PlainSymbols(file) ==
    {AliveSymbol(file), ".", "\n", "\r"} \cup (IF file = FileTxt THEN {" "} ELSE {})

\* the birth and kill symbols of a text, each with its text row and column
RECURSIVE TextCells(_, _, _, _, _)
TextCells(text, k, r, c, alive) ==
    IF k > Len(text) THEN <<>>
    ELSE CASE text[k] = "\n" -> TextCells(text, k + 1, r + 1, 0, alive)
           [] text[k] = alive ->
                <<[op |-> "birth", r |-> r, c |-> c]>> \o TextCells(text, k + 1, r, c + 1, alive)
           [] text[k] = "." ->
                <<[op |-> "kill", r |-> r, c |-> c]>> \o TextCells(text, k + 1, r, c + 1, alive)
           [] text[k] = " " -> TextCells(text, k + 1, r, c + 1, alive)
           [] OTHER -> TextCells(text, k + 1, r, c, alive)

\* a load of a txt, lif or cells text made of plain symbols only has ended
PlainLoaded ==
    /\ LoadDone /\ LoadFile \in {FileTxt, FileLif, FileCells}
    /\ \A k \in 1..Len(fs_data) : fs_data[k] \in PlainSymbols(LoadFile)

\* C12: for each of the eight transforms, a load at origin (i0,j0) writes the symbol
\* of text row r, column c to the grid cell (i0,j0)+D(r,c) wrapped onto the grid
\* (floor residue), D being (r,c), (r,-c), (-r,-c), (-r,c), (-c,r), (-c,-r), (c,-r),
\* (c,r) for identity, identity+mirror, rotate-180, rotate-180+mirror, rotate-left,
\* rotate-left+mirror, rotate-right, rotate-right+mirror; the advance of rotate-left/
\* right does not depend on the mirror flag, a newline resets the cross-axis
\* coordinate to the origin, and the eight maps are pairwise distinct.
C12_EightSymmetries ==
    /\ (LoadDone /\ fs_data = <<>>) => TransformTable(LoadOrigin)
    /\ PlainLoaded =>
         LET cells == TextCells(fs_data, 1, 0, 0, AliveSymbol(LoadFile))
             placed == Placements_(ghost.trace)
         IN /\ ~ret.panic
            /\ Len(placed) = Len(cells)
            /\ \A k \in 1..Len(cells) :
                 /\ placed[k].op = cells[k].op
                 /\ placed[k].row = (LoadOrigin[1] + D(LoadT, cells[k].r, cells[k].c)[1]) % hgt
                 /\ placed[k].col = (LoadOrigin[2] + D(LoadT, cells[k].r, cells[k].c)[2]) % wth

\* the characters that start a comment in the format of a file
CommentStarts(file) ==
    CASE file = FileLif -> {"#"}
      [] file = FileCells -> {"!"}
      [] file = FileRle -> {"#", "x"}
      [] OTHER -> {}

\* a text without its comments: each comment start and every character after it up to
\* and including the next newline (or up to the end of the text) is taken out
RECURSIVE StripComments(_, _, _, _)
StripComments(text, k, starts, commented) ==
    IF k > Len(text) THEN <<>>
    ELSE IF commented THEN StripComments(text, k + 1, starts, text[k] # "\n")
    ELSE IF text[k] \in starts THEN StripComments(text, k + 1, starts, TRUE)
    ELSE <<text[k]>> \o StripComments(text, k + 1, starts, FALSE)

\* what a load did and how it ended, whatever number of characters it read
Effect(u) ==
    [field |-> u.field, cnt |-> u.cnt, born |-> u.born, dead |-> u.dead, ret |-> u.ret,
     trace |-> u.ghost.trace, i |-> u.ghost.i, j |-> u.ghost.j]

\* C13: in the lif, cells and rle parsers a comment ('#' in lif, '!' in cells, '#' or
\* 'x' in rle) consumes every character up to and including the next newline, or up to
\* the end of input, without mutating a cell, moving the cursor or raising an error for
\* any character inside it, and its closing newline makes no newline move: the load
\* does what it does on the text without its comments, and a text made of comments
\* only is read to its end and changes nothing.
C13_Comments ==
    (LoadDone /\ LoadFile \in {FileLif, FileCells, FileRle}) =>
        LET plain == StripComments(fs_data, 1, CommentStarts(LoadFile), FALSE) IN
        /\ plain # fs_data => Effect(LoadOutcome) = Effect(LoadOf(plain))
        /\ plain = <<>> =>
             /\ ~ret.panic
             /\ ghost.consumed = Len(fs_data)
             /\ ghost.trace = <<>> /\ <<ghost.i, ghost.j>> = LoadOrigin
             /\ field = LoadBefore

\* "ox? o\nbo#$" has been loaded as rle on the empty grid: the header line with its
\* illegal characters and the closing comment are passed, and o, b, o land on one row
C13_Witness ==
    /\ LoadDone /\ LoadFile = FileRle /\ ~ret.panic
    /\ fs_data = <<"o", "x", "?", " ", "o", "\n", "b", "o", "#", "$">>
    /\ LoadOrigin = <<0, 0>> /\ LoadT = T_NONE /\ seed = {}
    /\ ghost.consumed = 10
    /\ <<ghost.i, ghost.j>> = <<0, 3>>
    /\ [k \in 1..Len(ghost.trace) |-> ghost.trace[k].op] = <<"birth", "kill", "birth">>
    /\ Alive(field, hgt, wth) = {<<0, 0>>, <<0, 2>>}

\* the cursor after the characters k.. of a txt text, from cursor `at`: a newline is a
\* newline move, 'x', '.' and ' ' are one Transform step each, a carriage return is nothing
RECURSIVE TxtCursor(_, _, _, _, _)
TxtCursor(text, k, at, t, o) ==
    IF k > Len(text) THEN at
    ELSE TxtCursor(text, k + 1,
                   CASE text[k] = "\n" -> Transform_newline(t, at[1], at[2], o[1], o[2])
                     [] text[k] \in {"x", ".", " "} -> Transform_next(t, at[1], at[2])
                     [] OTHER -> at,
                   t, o)

\* the births and kills of a txt text, each with the cursor it is made at: only 'x'
\* and '.' make one
TxtMarks(text, t, o) ==
    LET at == {k \in 1..Len(text) : text[k] \in {"x", "."}}
        nth(n) == CHOOSE k \in at : Cardinality({m \in at : m < k}) = n - 1
    IN [n \in 1..Cardinality(at) |->
          LET cur == TxtCursor(SubSeq(text, 1, nth(n) - 1), 1, o, t, o)
          IN [op |-> IF text[nth(n)] = "x" THEN "birth" ELSE "kill", i |-> cur[1], j |-> cur[2]]]

\* the cells a load has addressed with a birth or a kill
Addressed == {<<ghost.trace[k].row, ghost.trace[k].col>> :
                 k \in {m \in 1..Len(ghost.trace) : ghost.trace[m].op \in {"birth", "kill"}}}

\* C14: in the txt parser a space advances the cursor by one Transform step and
\* neither births nor kills the cell under it, and a carriage return changes neither
\* the cursor nor a cell: the births and kills are those of the 'x' and '.' alone, made
\* at the cursor that the newlines, 'x', '.' and spaces before them give.  In every
\* format a load changes only the cells addressed by a birth or kill symbol: every
\* other cell keeps the current and pending state it had before the load, and an
\* addressed cell ends in the state of the last symbol that addressed it.
C14_OverlayPlacement ==
    /\ (LoadDone /\ LoadFile = FileTxt /\ \A k \in 1..Len(fs_data) : fs_data[k] \in TxtAccepted) =>
         LET marks == TxtMarks(fs_data, LoadT, LoadOrigin)
             placed == Placements_(ghost.trace)
         IN /\ Len(placed) <= Len(marks)
            /\ \A k \in 1..Len(placed) :
                 [op |-> placed[k].op, i |-> placed[k].i, j |-> placed[k].j] = marks[k]
            /\ ~ret.panic =>
                 /\ Len(placed) = Len(marks)
                 /\ <<ghost.i, ghost.j>> = TxtCursor(fs_data, 1, LoadOrigin, LoadT, LoadOrigin)
    /\ LoadDone =>
         \E written \in {Addressed} : \A c \in Cells(hgt, wth) :
            /\ c \notin written => field[c[1]][c[2]] = [curr |-> c \in seed, succ |-> c \in seed]
            /\ c \in written =>
                 /\ field[c[1]][c[2]].succ = PendingAfter(ghost.trace, c[1], c[2], c \in seed)
                 /\ field[c[1]][c[2]].curr = IF ret.panic THEN c \in seed
                                              ELSE field[c[1]][c[2]].succ

\* " \rx" has been loaded as txt over the checkerboard: the space has passed over the
\* alive cell (0,0) and left it alive, the carriage return has moved nothing, and the
\* 'x' has given birth to the next cell
C14_Witness ==
    /\ LoadDone /\ LoadFile = FileTxt /\ ~ret.panic
    /\ fs_data = <<" ", "\r", "x">>
    /\ LoadOrigin = <<0, 0>> /\ LoadT = T_NONE
    /\ <<0, 0>> \in seed /\ <<0, 1>> \notin seed
    /\ field[0][0].curr /\ field[0][1].curr
    /\ Addressed = {<<0, 1>>}
    /\ born = 1 /\ dead = 0
    /\ <<ghost.i, ghost.j>> = <<0, 2>>

\* the text after the last '.' of a file name (the whole name when it has none)
AfterLastDot(file) ==
    LET dots == {k \in 1..Len(file) : file[k] = "."}
        last == IF dots = {} THEN 0 ELSE CHOOSE k \in dots : \A m \in dots : m <= k
    IN SubSeq(file, last + 1, Len(file))

\* the one symbol that births a cell in the parser of an extension
BirthSymbol(ext) ==
    CASE ext = TXT -> "x" [] ext = LIF -> "*" [] ext = CELLS -> "O" [] ext = RLE -> "o"

\* C15: add_from_file on a file name whose extension (the text after the last '.') is
\* not one of txt, lif, cells, rle fails with an unsupported-format error and leaves
\* every cell (current and pending) and every counter unchanged; for the four
\* recognised extensions the matching parser and no other is used: of the birth
\* symbols 'x', '*', 'O', 'o' of the four formats, only the one of the file's own format
\* gives birth, and the others are read as that format reads them ('x' opens a header
\* line in rle; every other one is an unknown character).
C15_ExtensionDispatch ==
    LoadDone =>
        LET ext == AfterLastDot(LoadFile) IN
        /\ ext \notin {TXT, LIF, CELLS, RLE} =>
             /\ ret.panic /\ ret.msg.kind = "is not recognized as a valid extension"
             /\ field = LoadBefore
             /\ cnt = Cardinality(seed) /\ born = Cardinality(seed) /\ dead = 0
             /\ ghost.trace = <<>>
        /\ (ext \in {TXT, LIF, CELLS, RLE} /\ Len(fs_data) = 1
               /\ fs_data[1] \in {"x", "*", "O", "o"}) =>
             IF fs_data[1] = BirthSymbol(ext)
             THEN /\ ~ret.panic
                  /\ [k \in 1..Len(ghost.trace) |-> ghost.trace[k].op] = <<"birth">>
                  /\ \E c \in Cells(hgt, wth) : Alive(field, hgt, wth) = seed \cup {c}
             ELSE /\ ghost.trace = <<>>
                  /\ field = LoadBefore
                  /\ IF ext = RLE /\ fs_data[1] = "x"
                     THEN ~ret.panic
                     ELSE ret.panic /\ ret.msg.kind = "unknown character"
                                    /\ ret.msg.shown = <<Ord(fs_data[1])>>

\* a load of "p.txt.bak" over the checkerboard has failed on its extension and left
\* the grid and the counters as they were
C15_Witness ==
    /\ LoadDone /\ LoadFile = <<"p", ".", "t", "x", "t", ".", "b", "a", "k">>
    /\ fs_data = <<"x">>
    /\ ret.panic /\ ret.msg.kind = "is not recognized as a valid extension"
    /\ seed # {} /\ field = LoadBefore /\ cnt = Cardinality(seed)

-----------------------------------------------------------------------------
(* Claims about index_move and count_neigh (SpecNeigh) *)

\* index_move has returned the floor residues of (i + di, j + dj), inside the grid
IndexMoveWraps ==
    (call.fn = "index_move" /\ ret.done) =>
        /\ ~ret.panic
        /\ ret.val = <<(call.args[1] + call.args[3]) % hgt, (call.args[2] + call.args[4]) % wth>>
        /\ ret.val \in Cells(hgt, wth)

\* count_neigh has returned the number of offsets leading to an alive cell, in 0..8
NeighbourCountBounded ==
    (call.fn = "count_neigh" /\ ret.done) =>
        /\ ~ret.panic
        /\ ret.val \in 0..8
        /\ ret.val = AliveNeighbours(field, hgt, wth, call.args[1], call.args[2])

\* the general modulo path of the grid, Canvas::mod_idx, on (i + di, j + dj) gives the
\* cell index_move has returned
AgreesWithModIdx ==
    (call.fn = "index_move" /\ ret.done) =>
        Canvas_mod_idx(hgt, wth, call.args[1] + call.args[3], call.args[2] + call.args[4],
                       overflow_checks) = ret

-----------------------------------------------------------------------------
(* Claims about mod_idx (SpecModIdx) *)

\* C3: for every integer i and every n > 0, mod_idx(i, n) returns the floor-semantics
\* residue of i modulo n, a value in [0, n), with 64-bit unsigned arithmetic
\* (mod_idx(-1, 5) = 4, mod_idx(-6, 5) = 4, mod_idx(7, 5) = 2).
C3_FloorResidue ==
    (call.fn = "mod_idx" /\ ret.done /\ ~ret.panic) =>
        /\ ret.val \in 0..(call.args[2] - 1)
        /\ ret.val = call.args[1] % call.args[2]

====
